---- MODULE Spec2Model ----
(***************************************************************************)
(* Multi-armed bandit simulation of src/exploration.py: the Bandit (arm),  *)
(* the MAB environment with its pull and run, and the five exploration     *)
(* strategies.                                                             *)
(*                                                                         *)
(* Numbers.  Every q_value, bias, reward and strategy parameter of the     *)
(* program is a Python float (IEEE-754 binary64, round to nearest, ties to *)
(* even).  The model keeps that arithmetic and scales the format down: a   *)
(* float is an integer count of units of 2^-FracBits (the spacing of the   *)
(* smallest numbers of the format) with at most SigBits significant bits,  *)
(* and every operation rounds its exact result to the nearest such number. *)
(* binary64 itself is SigBits = 53 with a spacing of 2^-1074.              *)
(***************************************************************************)
EXTENDS Integers, Sequences, FiniteSets, TLC

\* Bits of the significand of a float of the model.
SigBits == 8
\* A float of the model is a multiple of 2^-FracBits.
FracBits == 12
\* The largest number of rounds of a run, and of mab.pull calls on an environment.
MaxRounds == 3
\* The largest number of arms of an environment.
MaxArms == 2
\* The largest number of mab.pull calls a caller makes itself, before run.
MaxCallerPulls == 1

---------------------------------------------------------------------------
(* Floating-point arithmetic *)

\* 1.0, in units of 2^-FracBits.
One == 2^FracBits

Abs(x) == IF x < 0 THEN 0 - x ELSE x

Max2(a, b) == IF a >= b THEN a ELSE b

\* n/d (n >= 0, d > 0) rounded to the nearest integer, ties to the even one.
RoundHalfEven(n, d) ==
    LET q == n \div d
        r == n % d
    IN  IF 2 * r < d THEN q
        ELSE IF 2 * r > d THEN q + 1
        ELSE q + (q % 2)

\* The least j >= k with a < 2^SigBits * 2^j: the exponent of the spacing of
\* the floats around the magnitude a.
RECURSIVE Spacing(_, _)
Spacing(a, k) == IF a \div (2^k) < 2^SigBits THEN k ELSE Spacing(a, k + 1)

\* The float nearest to the exact value n/d (in units), d > 0.
RoundMag(n, d) ==
    LET j == Spacing(n \div d, 0)
    IN  RoundHalfEven(n, d * (2^j)) * (2^j)

Round(n, d) == IF n < 0 THEN 0 - RoundMag(0 - n, d) ELSE RoundMag(n, d)

\* float(k) of a Python int k.
IntToFloat(k) == Round(k * One, 1)

\* a + b, a - b, a * b, a / b on floats.
FAdd(a, b) == Round(a + b, 1)

FSub(a, b) == Round(a - b, 1)

FMul(a, b) == Round(a * b, One)

FDiv(a, b) == IF b < 0 THEN Round((0 - a) * One, 0 - b) ELSE Round(a * One, b)

\* The largest float below 1.0.
BelowOne == One - 2^(FracBits - SigBits)

\* The floor of the square root of x, between lo and hi (lo^2 <= x < hi^2).
RECURSIVE Bisect(_, _, _)
Bisect(x, lo, hi) ==
    IF hi - lo <= 1 THEN lo
    ELSE LET m == (lo + hi) \div 2
         IN  IF m * m <= x THEN Bisect(x, m, hi) ELSE Bisect(x, lo, m)

\* numpy.sqrt of a float a >= 0, correctly rounded: sqrt(a / One) * One is
\* the square root of X = a * One, rounded to the spacing 2^j of its floats.
FSqrt(a) ==
    LET X   == a * One
        s   == Bisect(X, 0, 2^15)
        j   == Spacing(s, 0)
        lo  == (s \div (2^j)) * (2^j)
        mid == IF j = 0 THEN s ELSE lo + 2^(j - 1)
    IN  IF j = 0
        THEN (IF X > s * s + s THEN s + 1 ELSE s)
        ELSE IF X > mid * mid THEN lo + 2^j
        ELSE IF X < mid * mid THEN lo
        ELSE lo + ((lo \div (2^j)) % 2) * (2^j)

\* The natural logarithms of 1..9, in units of 2^-16.
LnTable == <<0, 45426, 71999, 90852, 105476, 117425, 127527, 136278, 143997>>

\* numpy.log of the int t >= 1, rounded to a float.
FLog(t) == Round(LnTable[t] * (2^(FracBits - 4)), 2^12)

\* 2^(f / One) for 0 <= f < One, in units of 2^-16: the series of
\* exp(f * ln 2) to the fifth power, by Horner's rule.
Pow2Frac(f) ==
    LET h5 == 87
        h4 == 630 + (f * h5) \div One
        h3 == 3638 + (f * h4) \div One
        h2 == 15743 + (f * h3) \div One
        h1 == 45426 + (f * h2) \div One
    IN  65536 + (f * h1) \div One

\* numpy.exp of a float x, rounded to a float: exp(x) = 2^k * 2^f with
\* k + f = x * log2(e), k an integer and 0 <= f < 1.
FExp(x) ==
    LET y == (x * 5909) \div 4096
        k == y \div One
        m == Pow2Frac(y - k * One)
    IN  IF k >= 0
        THEN Round(m * (2^k), 2^(16 - FracBits))
        ELSE Round(m, (2^(16 - FracBits)) * (2^(0 - k)))

---------------------------------------------------------------------------
(* State *)

VARIABLES
    bandits,            \* MAB.bandits: arm index 0..no_actions-1 -> Bandit
    no_actions,         \* MAB._no_actions
    step_counter,       \* MAB.step_counter
    best_action_value,  \* MAB.best_action_value
    no_rounds,          \* MAB.no_rounds
    pc,                 \* where the caller of the MAB is: "idle", "running" (in run's loop), "returned", "aborted"
    i,                  \* run's loop variable: the rounds completed
    strategy,           \* run's exploration_strategy ("none" outside a run)
    param,              \* run's strategy parameter (epsilon, epsilon_init, c or tau)
    regrets,            \* run's local list regrets
    rewards,            \* run's local list rewards
    born,               \* history: the Bandits as they were constructed
    hist,               \* history: one record per pull of an arm, in order
    failed,             \* history: the number of MAB.pull calls that raised IndexError
    entered,            \* history: step_counter and the number of pulls when run was entered
    op                  \* history: the last operation and what it returned

vars == <<bandits, no_actions, step_counter, best_action_value, no_rounds, pc, i,
          strategy, param, regrets, rewards, born, hist, failed, entered, op>>

Arms == 0 .. (no_actions - 1)

\* Bandit.__init__
Bandit(bias, q_value, counter) == [bias |-> bias, q_value |-> q_value, counter |-> counter]

\* The biases of the driver: 1.0 / k for k = 5, 6, ...
Bias(a) == FDiv(IntToFloat(1), IntToFloat(5 + a))

\* The ways the arms of an environment are constructed: Bandit(bias), with
\* the defaults q_value = 0 and counter = 0; the driver's Bandit(bias, 1 - bias);
\* and Bandit(bias, 1 - bias, counter) with counters of a caller's choosing.
Constructions == {"default", "driver", "counted"}

NewBandit(how, a) ==
    CASE how = "default" -> Bandit(Bias(a), 0, 0)
      [] how = "driver"  -> Bandit(Bias(a), FSub(One, Bias(a)), 0)
      [] how = "counted" -> Bandit(Bias(a), FSub(One, Bias(a)), a + 1)

\* The driver's best_action_value, 0.7.
BestActionValue == Round(7 * One, 10)

\* What numpy.random.uniform() and numpy.random.random() can return: floats of [0, 1).
UniformDraws == {0, BelowOne}

RandomDraws == {0, One \div 2, BelowOne}

\* randint with the upper end included, as Python's own random.randint has it.
RandintInclusive(low, high) == low .. high

\* What numpy.random.randint(low, high) can return: low <= k < high.
Randint(low, high) == low .. (high - 1)

\* The numpy array of the elements f[0], ..., f[k], indexed from 0.
RECURSIVE ArrayTo(_, _)
ArrayTo(f, k) == IF k = 0 THEN 0 :> f[0] ELSE ArrayTo(f, k - 1) @@ (k :> f[k])

\* numpy.array of one element per arm.
Array(f) == ArrayTo(f, no_actions - 1)

\* MAB.bandit_q_values and MAB.bandit_counters
bandit_q_values == Array([a \in Arms |-> bandits[a].q_value])

bandit_counters == Array([a \in Arms |-> bandits[a].counter])

---------------------------------------------------------------------------
(* Bandit.pull and MAB.pull *)

\* Bandit.pull weighting the reward by 1 / (counter + 1), as if the estimate
\* held one more sample than the pulls made.
BanditPullExtraSample(b, u) ==
    LET counter == b.counter + 1
        reward  == FAdd(b.bias, u)
        q_value == FAdd(b.q_value,
                        FMul(FDiv(IntToFloat(1), IntToFloat(counter + 1)),
                             FSub(reward, b.q_value)))
    IN  [bandit |-> Bandit(b.bias, q_value, counter), reward |-> reward]

\* Bandit.pull on the Bandit b, numpy.random.uniform() returning u: the
\* Bandit afterwards and the reward returned.
BanditPull(b, u) ==
    LET counter == b.counter + 1
        reward  == FAdd(b.bias, u)
        q_value == FAdd(b.q_value,
                        FMul(FDiv(IntToFloat(1), IntToFloat(counter)),
                             FSub(reward, b.q_value)))
    IN  [bandit |-> Bandit(b.bias, q_value, counter), reward |-> reward]

\* self.bandits[action] on a tuple of n Bandits: Python counts a negative index
\* from the end, and raises IndexError outside -n .. n-1.
IndexOk(n, action) == (0 - n) <= action /\ action < n

Index(n, action) == IF action < 0 THEN action + n ELSE action

\* MAB.pull reading q_value before Bandit.pull has run.
PullResultStale(before, after) == <<after.reward, before.q_value>>

\* The pair MAB.pull returns: the tuple's elements are evaluated left to right,
\* so q_value is read after Bandit.pull has updated it.
PullResult(before, after) == <<after.reward, after.bandit.q_value>>

\* self.step_counter = 1 in place of += 1.
StepAssigned(step) == 1

\* self.step_counter += 1
StepAfterPull(step) == step + 1

\* MAB.pull(action): the step counter moves first; then the arm is looked up and pulled.
\* ret is <<reward, q_value>>.
MABPull(action, u) ==
    /\ step_counter' = StepAfterPull(step_counter)
    /\ IF IndexOk(no_actions, action)
       THEN LET a     == Index(no_actions, action)
                after == BanditPull(bandits[a], u)
                ret   == PullResult(bandits[a], after)
            IN  /\ bandits' = [bandits EXCEPT ![a] = after.bandit]
                /\ hist' = Append(hist, [index |-> a, reward |-> after.reward,
                                         q_value |-> after.bandit.q_value])
                /\ failed' = failed
                /\ op' = [kind |-> "pull", action |-> action, index |-> a,
                          reward |-> ret[1], q |-> ret[2],
                          pre |-> bandits, step |-> step_counter]
       ELSE /\ bandits' = bandits
            /\ hist' = hist
            /\ failed' = failed + 1
            /\ op' = [kind |-> "IndexError", action |-> action, index |-> 0 - 1,
                      reward |-> 0, q |-> 0, pre |-> bandits, step |-> step_counter]

---------------------------------------------------------------------------
(* The exploration strategies.  Each takes, besides its parameter, what the *)
(* random source returns to it: u for numpy.random.random(), ri for         *)
(* numpy.random.randint(0, len(mab.bandits)).                               *)

\* numpy.argmax of the vector v over 0..n-1: a scan that keeps the first
\* index holding the largest value.
RECURSIVE ArgmaxFrom(_, _, _)
ArgmaxFrom(v, k, best) ==
    IF k \notin DOMAIN v THEN best
    ELSE ArgmaxFrom(v, k + 1, IF v[k] > v[best] THEN k ELSE best)

Argmax(v) == ArgmaxFrom(v, 1, 0)

random(ri) == ri

\* epsilon_greedy exploiting with probability epsilon instead of 1 - epsilon.
epsilon_greedy_swapped(epsilon, u, ri) ==
    IF u < epsilon THEN Argmax(bandit_q_values) ELSE ri

epsilon_greedy(epsilon, u, ri) ==
    IF u < FSub(One, epsilon) THEN Argmax(bandit_q_values) ELSE ri

\* decaying_epsilon_greedy dividing by step_counter + 1 in place of the branch
\* on step_counter = 0.
decaying_epsilon_greedy_shifted(epsilon_init, u, ri) ==
    IF u < FSub(One, FDiv(epsilon_init, IntToFloat(step_counter + 1)))
    THEN Argmax(bandit_q_values) ELSE ri

decaying_epsilon_greedy(epsilon_init, u, ri) ==
    IF step_counter = 0
    THEN (IF u < FSub(One, epsilon_init) THEN Argmax(bandit_q_values) ELSE ri)
    ELSE (IF u < FSub(One, FDiv(epsilon_init, IntToFloat(step_counter)))
          THEN Argmax(bandit_q_values) ELSE ri)

\* ucb without its branch on step_counter = 0: numpy.log(0) is -inf, its
\* square root nan, every sum nan, and numpy.argmax of a vector of nan is 0.
ucb_unguarded(c) ==
    IF step_counter = 0 THEN 0
    ELSE LET confidence_bound ==
                 Array([a \in Arms |-> FMul(c, FSqrt(FDiv(FLog(step_counter),
                                                     IntToFloat(bandit_counters[a] + 1))))])
         IN  Argmax(Array([a \in Arms |-> FAdd(bandit_q_values[a], confidence_bound[a])]))

ucb(c) ==
    IF step_counter = 0 THEN Argmax(bandit_q_values)
    ELSE LET confidence_bound ==
                 Array([a \in Arms |-> FMul(c, FSqrt(FDiv(FLog(step_counter),
                                                     IntToFloat(bandit_counters[a] + 1))))])
         IN  Argmax(Array([a \in Arms |-> FAdd(bandit_q_values[a], confidence_bound[a])]))

\* numpy.sum and numpy.cumsum of the vector v over 0..n-1, up to index k.
RECURSIVE SumTo(_, _)
SumTo(v, k) == IF k = 0 THEN v[0] ELSE FAdd(SumTo(v, k - 1), v[k])

\* numpy.random.choice(range(n), p = p), its uniform draw being u: the
\* cumulative sums of p divided by the last of them, and the first index whose
\* cumulative sum is above u.
Choice(p, u) ==
    LET cdf == Array([a \in Arms |-> FDiv(SumTo(p, a), SumTo(p, no_actions - 1))])
    IN  CHOOSE a \in Arms : cdf[a] > u /\ \A b \in Arms : b < a => ~(cdf[b] > u)

softmax(tau, u) ==
    LET weights == Array([a \in Arms |-> FExp(FDiv(bandit_q_values[a], tau))])
        normalising_factor == SumTo(weights, no_actions - 1)
        action_probabilities == Array([a \in Arms |-> FDiv(weights[a], normalising_factor)])
    IN  Choice(action_probabilities, u)

\* The parameters run is called with: the driver's epsilon 0.5, epsilon_init
\* 0.6 and c 1.0, and other values of the same kind.
EpsilonSet == {0, One \div 2, One}

EpsilonInitSet == {Round(6 * One, 10), 2 * One}

CSet == {One}

TauSet == {One \div 2}

Params(s) ==
    CASE s = "random" -> {0}
      [] s = "epsilon_greedy" -> EpsilonSet
      [] s = "decaying_epsilon_greedy" -> EpsilonInitSet
      [] s = "ucb" -> CSet
      [] s = "softmax" -> TauSet

Strategies == {"random", "epsilon_greedy", "decaying_epsilon_greedy", "ucb", "softmax"}

\* exploration_strategy(self, **strategy_parameters): the actions the strategy
\* s with parameter q can return in the current state.
Choices(s, q) ==
    CASE s = "random" -> {random(ri) : ri \in Randint(0, no_actions)}
      [] s = "epsilon_greedy" ->
            {epsilon_greedy(q, u, ri) : u \in RandomDraws, ri \in Randint(0, no_actions)}
      [] s = "decaying_epsilon_greedy" ->
            {decaying_epsilon_greedy(q, u, ri) : u \in RandomDraws, ri \in Randint(0, no_actions)}
      [] s = "ucb" -> {ucb(q)}
      [] s = "softmax" -> {softmax(q, u) : u \in RandomDraws}

---------------------------------------------------------------------------
(* The state machine *)

NoOp(kind) == [kind |-> kind, action |-> 0, index |-> 0 - 1, reward |-> 0, q |-> 0,
               pre |-> bandits, step |-> step_counter]

\* Bandit(...) for every arm, then MAB(best_action_value, no_rounds, *bandits).
Init ==
    /\ no_actions \in 1 .. MaxArms
    /\ \E how \in Constructions :
          bandits = [a \in 0 .. (no_actions - 1) |-> NewBandit(how, a)]
    /\ born = bandits
    /\ step_counter = 0
    /\ best_action_value = BestActionValue
    /\ no_rounds \in 0 .. MaxRounds
    /\ pc = "idle"
    /\ i = 0
    /\ strategy = "none"
    /\ param = 0
    /\ regrets = << >>
    /\ rewards = << >>
    /\ hist = << >>
    /\ failed = 0
    /\ entered = [step |-> 0, pulls |-> 0]
    /\ op = [kind |-> "init", action |-> 0, index |-> 0 - 1, reward |-> 0, q |-> 0,
             pre |-> bandits, step |-> 0]

\* The actions a caller passes to mab.pull: every index of an arm, the index
\* one past the last arm, -1 and the index one before -no_actions.
CallerActions == (0 .. no_actions) \cup {0 - 1, 0 - no_actions - 1}

\* A caller's own mab.pull(action), outside run.
Pull ==
    /\ pc = "idle"
    /\ step_counter < MaxCallerPulls
    /\ \E action \in CallerActions, u \in UniformDraws :
          MABPull(action, u)
    /\ UNCHANGED <<no_actions, best_action_value, no_rounds, pc, i, strategy, param,
                   regrets, rewards, born, entered>>

\* mab.run(exploration_strategy, **strategy_parameters) is entered.
RunStart ==
    /\ pc = "idle"
    /\ step_counter + no_rounds <= MaxRounds
    /\ \E s \in Strategies : \E q \in Params(s) : strategy' = s /\ param' = q
    /\ pc' = "running"
    /\ i' = 0
    /\ regrets' = << >>
    /\ rewards' = << >>
    /\ op' = NoOp("run")
    /\ entered' = [step |-> step_counter, pulls |-> Len(hist)]
    /\ UNCHANGED <<bandits, no_actions, step_counter, best_action_value, no_rounds,
                   born, hist, failed>>

\* A loop that runs one iteration too many.
InRangeInclusive(k, n) == k <= n

\* for i in range(self.no_rounds): whether the loop has another iteration.
InRange(k, n) == k < n

\* One iteration of run's loop.
RunRound ==
    /\ pc = "running"
    /\ InRange(i, no_rounds)
    /\ \E action \in Choices(strategy, param), u \in UniformDraws :
          /\ MABPull(action, u)
          /\ IF IndexOk(no_actions, action)
             THEN /\ regrets' = Append(regrets, FSub(best_action_value, op'.q))
                  /\ rewards' = Append(rewards, op'.reward)
                  /\ i' = i + 1
                  /\ pc' = pc
             ELSE /\ pc' = "aborted"
                  /\ UNCHANGED <<regrets, rewards, i>>
    /\ UNCHANGED <<no_actions, best_action_value, no_rounds, strategy, param, born,
                   entered>>

\* return regrets, rewards
RunReturn ==
    /\ pc = "running"
    /\ ~InRange(i, no_rounds)
    /\ pc' = "returned"
    /\ op' = NoOp("return")
    /\ UNCHANGED <<bandits, no_actions, step_counter, best_action_value, no_rounds, i,
                   strategy, param, regrets, rewards, born, hist, failed, entered>>

Next == Pull \/ RunStart \/ RunRound \/ RunReturn

Spec == Init /\ [][Next]_vars

---------------------------------------------------------------------------
(* Properties *)

\* The first index holding the largest value of the vector v.
FirstMax(v) ==
    CHOOSE a \in DOMAIN v :
        /\ \A b \in DOMAIN v : v[b] <= v[a]
        /\ \A b \in DOMAIN v : b < a => v[b] < v[a]

QValues(bs) == [a \in DOMAIN bs |-> bs[a].q_value]

\* The rewards arm a has received, in order.
RewardsOf(a) ==
    LET OfArm(h) == h.index = a
        pulls == SelectSeq(hist, OfArm)
    IN  [k \in 1 .. Len(pulls) |-> pulls[k].reward]

RECURSIVE SeqSum(_)
SeqSum(s) == IF Len(s) = 0 THEN 0 ELSE s[1] + SeqSum(Tail(s))

RECURSIVE SeqMaxAbs(_)
SeqMaxAbs(s) == IF Len(s) = 0 THEN 0 ELSE Max2(Abs(s[1]), SeqMaxAbs(Tail(s)))

\* Arm a was constructed with counter 0 and has been pulled.
PulledFromZero(a) == born[a].counter = 0 /\ bandits[a].counter >= 1

\* A round of run has just been made.
RoundMade == pc = "running" /\ op.kind = "pull"

\* run is in its loop, calling the strategy s.
Running(s) == pc = "running" /\ strategy = s

\* C1, as stated: an arm constructed with counter 0 and pulled n >= 1 times
\* holds exactly the sample mean of its rewards, q_value = (r_1 + ... + r_n) / n.
C1_ExactSampleMean ==
    \A a \in Arms :
        PulledFromZero(a) =>
            bandits[a].counter * bandits[a].q_value = SeqSum(RewardsOf(a))

\* C1, amended: the estimate is the sample mean up to the rounding of the float
\* operations of the n updates: with M the largest magnitude among the initial
\* estimate and the rewards, |q_value - mean| <= (n + 7) * M * 2^-SigBits
\* + (n + 1) / 4 units of the smallest spacing.
C1_SampleMeanUpToRounding ==
    \A a \in Arms :
        PulledFromZero(a) =>
            LET n == bandits[a].counter
                r == RewardsOf(a)
                M == Max2(Abs(born[a].q_value), SeqMaxAbs(r))
            IN  /\ Len(r) = n
                /\ 4 * (2^SigBits) * Abs(n * bandits[a].q_value - SeqSum(r))
                      <= 4 * n * (n + 7) * M + n * (n + 1) * (2^SigBits)

\* An arm constructed with a nonzero estimate and counter 0 has been pulled at
\* least twice, with different rewards, and its estimate is not the exact mean.
C1_Witness ==
    \E a \in Arms :
        /\ PulledFromZero(a)
        /\ born[a].q_value # 0
        /\ bandits[a].counter >= 2
        /\ \E k \in 1 .. Len(RewardsOf(a)) : RewardsOf(a)[k] # RewardsOf(a)[1]
        /\ bandits[a].counter * bandits[a].q_value # SeqSum(RewardsOf(a))

\* C2: every MAB.pull call (a caller's or a round's, raising or not) moves
\* step_counter up by exactly 1 and nothing else moves it; the pull of an arm
\* moves that arm's counter up by exactly 1 and no other step changes a counter.
C2_CountersStepByOne ==
    [][ /\ ((Pull \/ RunRound) => step_counter' = step_counter + 1)
        /\ (~(Pull \/ RunRound) => step_counter' = step_counter)
        /\ \A a \in Arms :
              IF (Pull \/ RunRound) /\ op'.kind = "pull" /\ op'.index = a
              THEN bandits'[a].counter = bandits[a].counter + 1
              ELSE bandits'[a].counter = bandits[a].counter ]_vars

\* A run is past its second round, and one arm was pulled in both.
C2_Witness ==
    /\ RoundMade
    /\ step_counter >= 2
    /\ \E a \in Arms : bandits[a].counter >= born[a].counter + 2

\* What run returns: both lists hold one entry per round, the k-th of them the
\* reward and the regret of the k-th pull made since run was entered.
RunResult ==
    /\ Len(regrets) = no_rounds
    /\ Len(rewards) = no_rounds
    /\ step_counter - entered.step = no_rounds
    /\ Len(hist) - entered.pulls = no_rounds
    /\ \A k \in 1 .. no_rounds :
          /\ rewards[k] = hist[entered.pulls + k].reward
          /\ regrets[k] = FSub(best_action_value, hist[entered.pulls + k].q_value)

\* While run is in its loop: i rounds are done, i <= no_rounds, each of them
\* made one pull and appended one entry to each list; and the next step of the
\* loop can be taken (below no_rounds the strategy returns an action and the
\* random source a reward draw, at no_rounds run returns).
RunProgress ==
    /\ i <= no_rounds
    /\ Len(regrets) = i
    /\ Len(rewards) = i
    /\ step_counter - entered.step = i
    /\ InRange(i, no_rounds) => (Choices(strategy, param) # {} /\ UniformDraws # {})

C4_InvalidActionRaises ==
    (op.kind \in {"pull", "IndexError"} /\ ~(0 <= op.action /\ op.action < no_actions))
        => (op.kind = "IndexError" /\ bandits = op.pre)

\* C5: epsilon_greedy with epsilon = 0 returns the first arm of the largest
\* q_value whatever the random source returns, and with epsilon = 1 returns the
\* random index.
C5_EpsilonGreedyExtremes ==
    /\ Running("epsilon_greedy") =>
          \A u \in RandomDraws, ri \in Randint(0, no_actions) :
              /\ param = 0 => epsilon_greedy(param, u, ri) = FirstMax(bandit_q_values)
              /\ param = One => epsilon_greedy(param, u, ri) = ri
    /\ (RoundMade /\ strategy = "epsilon_greedy" /\ param = 0)
          => op.index = FirstMax(QValues(op.pre))

\* A round of epsilon_greedy with epsilon = 0 chose among arms tied for the
\* largest q_value.
C5_Witness ==
    /\ RoundMade
    /\ strategy = "epsilon_greedy"
    /\ param = 0
    /\ \E a, b \in Arms :
          /\ a # b
          /\ op.pre[a].q_value = op.pre[b].q_value
          /\ \A d \in Arms : op.pre[d].q_value <= op.pre[a].q_value

\* The values of c that ucb is checked with at step_counter = 0.
CValues == {0, One, 4 * One}

C7_UcbAtStepZero ==
    /\ step_counter = 0 => \A c \in CValues : ucb(c) = FirstMax(bandit_q_values)
    /\ (RoundMade /\ strategy = "ucb" /\ op.step = 0)
          => op.index = FirstMax(QValues(op.pre))

\* The first round of a ucb run was made at step_counter = 0 on arms
\* constructed with different nonzero counters.
C7_Witness ==
    /\ RoundMade
    /\ strategy = "ucb"
    /\ op.step = 0
    /\ \E a, b \in Arms : 0 < op.pre[a].counter /\ op.pre[a].counter < op.pre[b].counter

\* C8: MAB.pull returns the reward of the pull and the q_value the pull left,
\* and a round appends that reward and best_action_value minus that q_value.
C8_RegretFromUpdatedEstimate ==
    /\ op.kind = "pull" =>
          /\ op.q = bandits[op.index].q_value
          /\ op.reward = hist[Len(hist)].reward
          /\ hist[Len(hist)].index = op.index
    /\ RoundMade =>
          /\ regrets[Len(regrets)] = FSub(best_action_value, bandits[op.index].q_value)
          /\ rewards[Len(rewards)] = op.reward

\* A round changed the q_value of the arm it pulled.
C8_Witness ==
    /\ RoundMade
    /\ op.pre[op.index].q_value # bandits[op.index].q_value
    /\ Len(regrets) >= 2

\* The effective epsilon of decaying_epsilon_greedy.
EffectiveEpsilon(epsilon_init) ==
    IF step_counter = 0 THEN epsilon_init
    ELSE FDiv(epsilon_init, IntToFloat(step_counter))

\* decaying_epsilon_greedy returns what epsilon_greedy does with the effective
\* epsilon, on the same state and the same draws.
DecayingAsEpsilonGreedy ==
    \A u \in RandomDraws, ri \in Randint(0, no_actions) :
        decaying_epsilon_greedy(param, u, ri)
            = epsilon_greedy(EffectiveEpsilon(param), u, ri)

\* C9, as stated: the equivalence, and whenever step_counter <= epsilon_init
\* the greedy branch is never taken (the random index is what is returned).
C9_NeverGreedyUpToEpsilonInit ==
    Running("decaying_epsilon_greedy") =>
        /\ DecayingAsEpsilonGreedy
        /\ \A u \in RandomDraws, ri \in Randint(0, no_actions) :
              IntToFloat(step_counter) <= param
                  => decaying_epsilon_greedy(param, u, ri) = ri

\* C9, amended: the equivalence, and the greedy branch is never taken whenever
\* the effective epsilon is at least 1: when 1 <= step_counter <= epsilon_init,
\* and at step_counter = 0 when epsilon_init >= 1.
C9_DecayingAsEpsilonGreedy ==
    Running("decaying_epsilon_greedy") =>
        /\ DecayingAsEpsilonGreedy
        /\ \A u \in RandomDraws, ri \in Randint(0, no_actions) :
              ((1 <= step_counter /\ IntToFloat(step_counter) <= param)
                  \/ (step_counter = 0 /\ One <= param))
              => decaying_epsilon_greedy(param, u, ri) = ri

\* A round of decaying_epsilon_greedy with epsilon_init = 2 was made at
\* step_counter = 2, and it did not return the greedy arm.
C9_Witness ==
    /\ RoundMade
    /\ strategy = "decaying_epsilon_greedy"
    /\ param = 2 * One
    /\ op.step = 2
    /\ op.index # FirstMax(QValues(op.pre))

RECURSIVE SumCounters(_)
SumCounters(k) == IF k < 0 THEN 0 ELSE bandits[k].counter + SumCounters(k - 1)

\* C10, as stated: with every arm constructed with counter 0, the counters
\* of the arms sum to step_counter in every state, and a pull of one arm leaves
\* the other arms and every bias as they were.
C10_CountersSumToSteps ==
    (\A a \in Arms : born[a].counter = 0) =>
        /\ SumCounters(no_actions - 1) = step_counter
        /\ \A a \in Arms : bandits[a].bias = born[a].bias
        /\ op.kind = "pull" =>
              \A a \in Arms : a # op.index => bandits[a] = op.pre[a]

====
